---------------------------- MODULE Spec2Model ----------------------------
(***************************************************************************)
(* The three root finders of src/utils/newton_raphson.rs                   *)
(* (newton_raphson_broyden, newton_raphson_fdiff, newton_raphson_linsrch)  *)
(* as one state machine.  A behaviour is one call of one solver: Init      *)
(* draws the solver and its arguments (fxn, x_0, acc), the actions are the *)
(* successive parts of the function body, and pc = "done" is the return.   *)
(*                                                                         *)
(* Numbers.  f64 values are modelled on the integer grid: +, - and * are   *)
(* exact, every division rounds to the nearest integer (Div).  The model   *)
(* works in dimension Dim = 2 (the tests use Vector1 and Vector2); a       *)
(* vector is a tuple <<v1, v2>>, a matrix a tuple of rows.                 *)
(***************************************************************************)
EXTENDS Integers, Sequences, FiniteSets

VARIABLES
    solver,     \* which of the three functions is called
    fxn,        \* argument fxn: the residual function, as a record (see Fxn)
    x_0,        \* argument x_0
    acc,        \* argument acc
    pc,         \* position in the function body: "call", "loop", "eval", "done"
    iter,       \* iterations of the for loop entered so far
    x_last,     \* x_last (broyden, fdiff), x_old (linsrch)
    x_new,      \* x_new
    f_n,        \* f_n (broyden), fk (fdiff), f_vec (linsrch)
    f_new,      \* f_new (linsrch): the merit value, kept doubled (F.F)
    jac,        \* jac (broyden, linsrch)
    jac_inv,    \* jac_inv (fdiff): a pseudo-inverse, as [num, den]
    del_x,      \* del_x (broyden, fdiff)
    grad,       \* grad (linsrch)
    p,          \* p (linsrch), as handed to the line search
    result,     \* the value returned: [kind, val, msg]
    branch,     \* which return statement produced the result
    evals,      \* evaluations of fxn made by the driver's own body
    jcalls,     \* calls of the finite-difference Jacobian estimator
    pcalls      \* calls of pseudo_inverse

vars == <<solver, fxn, x_0, acc, pc, iter, x_last, x_new, f_n, f_new, jac,
          jac_inv, del_x, grad, p, result, branch, evals, jcalls, pcalls>>

----------------------------------------------------------------------------
(* Program constants *)

Dim == 2

MAX_ITER == 200

\* TOLX = 1.0e-7 in broyden and fdiff, kept as its reciprocal
TOLX_INV == 10000000

\* TOLX = EPSILON = 2^-52 in linsrch.  Its reciprocal exceeds the integers of
\* the model; every coordinate of the model is below 2^31 - 1, so the
\* quotient (|x| - 1) \div (1/TOLX) is 0 with either divisor.
TOLX_LS_INV == 2147483647

\* the first-guess test compares against 0.01 * acc
ROOT_FACTOR_INV == 100

STEP_MAX == 100

----------------------------------------------------------------------------
(* Bounds of the model *)

\* first coordinates of the initial guesses are drawn from -X0Max .. X0Max
X0Max == 2

\* components of a constant residual are drawn from -CMax .. CMax
CMax == 2

\* the line search halves its step length at most LsMaxHalvings times
LsMaxHalvings == 12

----------------------------------------------------------------------------
(* Arithmetic on the integer grid *)

Idx == 1 .. Dim

Abs(a) == IF a < 0 THEN -a ELSE a

Max(a, b) == IF a > b THEN a ELSE b

\* a / b rounded to the nearest integer, halves away from zero (b # 0)
Div(a, b) ==
    LET n == Abs(a)
        d == Abs(b)
        q == IF 2 * (n % d) >= d THEN (n \div d) + 1 ELSE n \div d
    IN  IF (a < 0) = (b < 0) THEN q ELSE -q

ZeroVec == [i \in Idx |-> 0]

ZeroMat == [i \in Idx |-> ZeroVec]

VAdd(u, v) == [i \in Idx |-> u[i] + v[i]]

VSub(u, v) == [i \in Idx |-> u[i] - v[i]]

VNeg(u) == [i \in Idx |-> -u[i]]

VDiv(u, d) == [i \in Idx |-> Div(u[i], d)]

RECURSIVE DotFrom(_, _, _)
DotFrom(u, v, i) == IF i > Dim THEN 0 ELSE u[i] * v[i] + DotFrom(u, v, i + 1)

Dot(u, v) == DotFrom(u, v, 1)

MatVec(m, v) == [i \in Idx |-> Dot(m[i], v)]

Transpose(m) == [i \in Idx |-> [j \in Idx |-> m[j][i]]]

Outer(u, v) == [i \in Idx |-> [j \in Idx |-> u[i] * v[j]]]

MAdd(a, b) == [i \in Idx |-> [j \in Idx |-> a[i][j] + b[i][j]]]

\* v.norm().powf(2.0): the sum of the squares
NormSquared(v) == Dot(v, v)

RECURSIVE ISqrtIn(_, _, _)
ISqrtIn(n, lo, hi) ==
    IF lo >= hi THEN lo
    ELSE LET mid == (lo + hi + 1) \div 2
         IN  IF mid * mid <= n THEN ISqrtIn(n, mid, hi)
             ELSE ISqrtIn(n, lo, mid - 1)

\* v.norm(): the Euclidean norm, rounded down.  A vector with one non-zero
\* component has the norm |component| (this also keeps the squares of large
\* coordinates out of the computation).
Norm(v) ==
    IF Cardinality({i \in Idx : v[i] # 0}) <= 1
    THEN LET RECURSIVE SumAbs(_)
             SumAbs(i) == IF i > Dim THEN 0 ELSE Abs(v[i]) + SumAbs(i + 1)
         IN  SumAbs(1)
    ELSE ISqrtIn(NormSquared(v), 0, 46340)

----------------------------------------------------------------------------
(* The caller's residual function.  fxn is a record [kind, m, r, k]; the   *)
(* kinds are the shapes of function the callers and tests hand over.       *)

Cube(a) == a * a * a

\* the far coordinate used for guesses whose magnitude exceeds 1 / TOLX
BigX == 20000000

\* "saw" starts from this residual and loses one unit every third point
SawTop == 3400

SawDrop == 1000

Fxn(fx, x) ==
    CASE fx.kind = "const" -> fx.r
      [] fx.kind = "lin" -> MatVec(fx.m, VSub(x, fx.r))
      [] fx.kind = "vee" -> <<Abs(x[1] - fx.r[1]) + fx.k, x[2] - fx.r[2]>>
      [] fx.kind = "cubic1" -> <<Cube(x[1]) + 3 * x[1] - fx.k, x[2]>>
      [] fx.kind = "cubic1n" -> <<fx.k - 3 * x[1] - Cube(x[1]), x[2]>>
      [] fx.kind = "cubic2" ->
            <<x[1] + Cube(x[1] - x[2]) - fx.k, Cube(x[2] - x[1]) + x[2]>>
      [] fx.kind = "saw" ->
            <<SawTop - (x[1] \div 3)
                - (IF x[1] % 3 = 0 THEN 0 ELSE SawDrop), x[2]>>

----------------------------------------------------------------------------
(* Collaborators of the drivers *)

\* forward differences with the step of the grid: column j is
\* (F(x + e_j) - f0) / 1
fdiff_jacobian(fx, f0, x) ==
    [i \in Idx |-> [j \in Idx |->
        Fxn(fx, [x EXCEPT ![j] = @ + 1])[i] - f0[i]]]

fdiff_jacobian_2(fx, f0, x) ==
    [i \in Idx |-> [j \in Idx |->
        Fxn(fx, [x EXCEPT ![j] = @ + 1])[i] - f0[i]]]

\* Moore-Penrose pseudo-inverse of a 2 x 2 matrix, exact, as the rational
\* matrix num / den: the inverse when det # 0, m^T / |m|_F^2 when the rank
\* is 1, the zero matrix for the zero matrix.  (A non-zero singular value of
\* an integer matrix of the model is far above INV_TOL = EPSILON, so the
\* cutoff only removes exact zeros.)
PseudoInverse(m) ==
    LET det == m[1][1] * m[2][2] - m[1][2] * m[2][1]
        frob == NormSquared(m[1]) + NormSquared(m[2])
    IN  IF det # 0
        THEN [num |-> <<<<m[2][2], -m[1][2]>>, <<-m[2][1], m[1][1]>>>>,
              den |-> det]
        ELSE IF frob # 0
        THEN [num |-> Transpose(m), den |-> frob]
        ELSE [num |-> ZeroMat, den |-> 1]

\* pseudo_inverse returns a Result: the library may also report a failure
PinvResults(m) ==
    {[ok |-> TRUE, inv |-> PseudoInverse(m)],
     [ok |-> FALSE, inv |-> [num |-> ZeroMat, den |-> 1]]}

\* (pseudo-inverse) * v
PinvMul(pinv, v) == VDiv(MatVec(pinv.num, v), pinv.den)

----------------------------------------------------------------------------
(* Pieces shared by the drivers *)

\* test = 0.0; for idx in 0..dim { if f[idx].abs() > test { test = f[idx].abs() } }
RECURSIVE MaxAbsFrom(_, _, _)
MaxAbsFrom(f, i, test) ==
    IF i > Dim THEN test
    ELSE MaxAbsFrom(f, i + 1, IF Abs(f[i]) > test THEN Abs(f[i]) ELSE test)

\* the comparison written against 0.01 instead of 0.01 * acc
IsRootGuess_NoAcc(f, a) == ROOT_FACTOR_INV * MaxAbsFrom(f, 1, 0) < 1

\* test < 0.01 * acc
IsRootGuess(f, a) == ROOT_FACTOR_INV * MaxAbsFrom(f, 1, 0) < a

\* the comparison of test_x with TOLX turned around
XConverged_Flipped(dx, xn, tolInv) ==
    ~ \A i \in Idx : Abs(dx[i]) <= (Max(Abs(xn[i]), 1) - 1) \div tolInv

\* test_x < TOLX, where test_x is the largest |dx_i| / max(|xn_i|, 1): the
\* largest ratio is below TOLX iff every ratio is, and |dx_i| / m < 1 / K
\* iff |dx_i| <= (m - 1) \div K
XConverged(dx, xn, tolInv) ==
    \A i \in Idx : Abs(dx[i]) <= (Max(Abs(xn[i]), 1) - 1) \div tolInv

Ok(x) == [kind |-> "Ok", val |-> x, msg |-> ""]

Err(s) == [kind |-> "Err", val |-> <<>>, msg |-> s]

NoResult == [kind |-> "none", val |-> <<>>, msg |-> ""]

PinvError == "pseudo_inverse"

\* an error is recorded and the loop goes on
Return_Retry(r, b) ==
    /\ result' = r
    /\ branch' = b
    /\ pc' = IF r.kind = "Err" THEN "loop" ELSE "done"

\* return r: the call is over
Return(r, b) ==
    /\ result' = r
    /\ branch' = b
    /\ pc' = "done"

\* the range written 0..=MAX_ITER
LoopContinues_Inclusive(i) == i <= MAX_ITER

\* for _ in 0..MAX_ITER: another iteration starts while i iterations ran
LoopContinues(i) == i < MAX_ITER

\* the test on x returning the iterate after the step
XConvReturn_New(xl, xn) == Ok(xn)

\* if test_x < TOLX { return Ok(x_last); }
XConvReturn(xl, xn) == Ok(xl)

----------------------------------------------------------------------------
(* The call: Init draws the solver and its arguments *)

Solvers == {"broyden", "fdiff", "linsrch"}

Accs == {1, 4, 250}

Identity == <<<<1, 0>>, <<0, 1>>>>

Mats == {Identity, <<<<2, 1>>, <<0, 1>>>>, <<<<1, 1>>, <<1, 1>>>>,
         <<<<1, 2>>, <<3, 4>>>>}

SmallX0 == {<<a, b>> : a \in -X0Max .. X0Max, b \in {0, 1}}

AxisX0 == {<<a, 0>> : a \in -X0Max .. X0Max}

BigX0 == {<<BigX + a, 0>> : a \in 0 .. X0Max}

ConstFxns ==
    {[kind |-> "const", m |-> ZeroMat, r |-> <<a, b>>, k |-> 0] :
        a \in -CMax .. CMax, b \in -CMax .. CMax}

LinFxns ==
    {[kind |-> "lin", m |-> mm, r |-> rr, k |-> 0] :
        mm \in Mats, rr \in {<<0, 0>>, <<1, -2>>, <<300, 0>>}}

BigLinFxns ==
    {[kind |-> "lin", m |-> mm, r |-> <<BigX + 1, 0>>, k |-> 0] :
        mm \in {Identity, <<<<2, 1>>, <<0, 1>>>>}}

VeeFxns ==
    {[kind |-> "vee", m |-> ZeroMat, r |-> <<1, 0>>, k |-> kk] : kk \in {1, 2}}

CubicFxns ==
    {[kind |-> kd, m |-> ZeroMat, r |-> ZeroVec, k |-> kk] :
        kd \in {"cubic1", "cubic1n"}, kk \in {7, 14}}
    \cup {[kind |-> "cubic2", m |-> ZeroMat, r |-> ZeroVec, k |-> 3]}

SawFxns == {[kind |-> "saw", m |-> ZeroMat, r |-> ZeroVec, k |-> 0]}

\* the pairs (fxn, x_0) a call of solver s is made with ("saw" sends the
\* Broyden iterates beyond the integers of the model)
Calls(s) ==
    (ConstFxns \X AxisX0) \cup (LinFxns \X SmallX0) \cup (BigLinFxns \X BigX0)
    \cup (VeeFxns \X AxisX0) \cup (CubicFxns \X SmallX0)
    \cup (IF s = "broyden" THEN {} ELSE SawFxns \X {ZeroVec})

NoPinv == [num |-> ZeroMat, den |-> 1]

Init ==
    /\ solver \in Solvers
    /\ \E c \in Calls(solver) : fxn = c[1] /\ x_0 = c[2]
    /\ acc \in Accs
    /\ pc = "call"
    /\ iter = 0
    /\ x_last = ZeroVec
    /\ x_new = ZeroVec
    /\ f_n = ZeroVec
    /\ f_new = 0
    /\ jac = ZeroMat
    /\ jac_inv = NoPinv
    /\ del_x = ZeroVec
    /\ grad = ZeroVec
    /\ p = ZeroVec
    /\ result = NoResult
    /\ branch = "none"
    /\ evals = 0
    /\ jcalls = 0
    /\ pcalls = 0

----------------------------------------------------------------------------
(* newton_raphson_broyden *)

BroydenMaxIterMsg == "[NEWTON BROYDEN] Maximum Number of Iterations Reached"

MaxIterMsg == "Maximum Number of Iterations Reached"

\* the update without the division by the squared norm
BroydenUpdate_NoNorm(j, df, dx) ==
    MAdd(j, Outer(VSub(df, MatVec(j, dx)), dx))

\* jac = &jac + (&del_f - &jac * &del_x) / del_x_norm.powf(2.0) * &del_x.transpose()
BroydenUpdate(j, df, dx) ==
    MAdd(j, Outer(VDiv(VSub(df, MatVec(j, dx)), NormSquared(dx)), dx))

\* lines 47-64: evaluate F at x_0, first-guess test, initial Jacobian
BroydenCall ==
    /\ solver = "broyden"
    /\ pc = "call"
    /\ LET f0 == Fxn(fxn, x_0)
       IN  /\ f_n' = f0
           /\ x_last' = x_0
           /\ evals' = evals + 1
           /\ IF IsRootGuess(f0, acc)
              THEN /\ Return(Ok(x_0), "root_guess")
                   /\ UNCHANGED <<jac, jcalls>>
              ELSE /\ jac' = fdiff_jacobian_2(fxn, f0, x_0)
                   /\ jcalls' = jcalls + 1
                   /\ pc' = "loop"
                   /\ UNCHANGED <<result, branch>>
    /\ UNCHANGED <<solver, fxn, x_0, acc, iter, x_new, f_new, jac_inv, del_x,
                   grad, p, pcalls>>

\* lines 76-94: the step and the test on x
BroydenStep ==
    /\ solver = "broyden"
    /\ pc = "loop"
    /\ LoopContinues(iter)
    /\ iter' = iter + 1
    /\ pcalls' = pcalls + 1
    /\ \E r \in PinvResults(jac) :
          IF ~r.ok
          THEN /\ Return(Err(PinvError), "pinv")
               /\ UNCHANGED <<x_new, del_x, x_last>>
          ELSE LET xn == VSub(x_last, PinvMul(r.inv, f_n))
                   dx == VSub(xn, x_last)
               IN  /\ x_new' = xn
                   /\ del_x' = dx
                   /\ IF XConverged(dx, xn, TOLX_INV)
                      THEN /\ Return(XConvReturn(x_last, xn), "x_conv")
                           /\ UNCHANGED x_last
                      ELSE /\ x_last' = xn
                           /\ pc' = "eval"
                           /\ UNCHANGED <<result, branch>>
    /\ UNCHANGED <<solver, fxn, x_0, acc, f_n, f_new, jac, jac_inv, grad, p,
                   evals, jcalls>>

\* lines 97-111: evaluate F at x_new, the test on f, the rank-one update
BroydenEval ==
    /\ solver = "broyden"
    /\ pc = "eval"
    /\ LET f_last == f_n
           fn == Fxn(fxn, x_new)
           del_f == VSub(fn, f_last)
       IN  /\ f_n' = fn
           /\ evals' = evals + 1
           /\ IF MaxAbsFrom(fn, 1, 0) < acc
              THEN /\ Return(Ok(x_new), "f_conv")
                   /\ UNCHANGED jac
              ELSE /\ jac' = BroydenUpdate(jac, del_f, del_x)
                   /\ pc' = "loop"
                   /\ UNCHANGED <<result, branch>>
    /\ UNCHANGED <<solver, fxn, x_0, acc, iter, x_last, x_new, f_new, jac_inv,
                   del_x, grad, p, jcalls, pcalls>>

\* line 113: the loop ran MAX_ITER times
BroydenMaxIter ==
    /\ solver = "broyden"
    /\ pc = "loop"
    /\ ~LoopContinues(iter)
    /\ Return(Err(BroydenMaxIterMsg), "max_iter")
    /\ UNCHANGED <<solver, fxn, x_0, acc, iter, x_last, x_new, f_n, f_new, jac,
                   jac_inv, del_x, grad, p, evals, jcalls, pcalls>>

----------------------------------------------------------------------------
(* newton_raphson_fdiff *)

\* lines 183-188: test_f = 0.0;
\*   for idx in 0..dim { if fk[idx] > test_f { test_f = fk[idx].abs() } }
RECURSIVE FdiffTestF(_, _, _)
FdiffTestF(fk, i, test_f) ==
    IF i > Dim THEN test_f
    ELSE FdiffTestF(fk, i + 1, IF fk[i] > test_f THEN Abs(fk[i]) ELSE test_f)

\* lines 137-156: evaluate F at x_0, first-guess test, first pseudo-inverse
FdiffCall ==
    /\ solver = "fdiff"
    /\ pc = "call"
    /\ LET fk == Fxn(fxn, x_0)
       IN  /\ f_n' = fk
           /\ evals' = evals + 1
           /\ IF IsRootGuess(fk, acc)
              THEN /\ Return(Ok(x_0), "root_guess")
                   /\ UNCHANGED <<jac_inv, x_last, jcalls, pcalls>>
              ELSE /\ jcalls' = jcalls + 1
                   /\ pcalls' = pcalls + 1
                   /\ \E r \in PinvResults(fdiff_jacobian(fxn, fk, x_0)) :
                         IF ~r.ok
                         THEN /\ Return(Err(PinvError), "pinv")
                              /\ UNCHANGED <<jac_inv, x_last>>
                         ELSE /\ jac_inv' = r.inv
                              /\ x_last' = x_0
                              /\ pc' = "loop"
                              /\ UNCHANGED <<result, branch>>
    /\ UNCHANGED <<solver, fxn, x_0, acc, iter, x_new, f_new, jac, del_x, grad,
                   p>>

\* lines 161-177: the step and the test on x
FdiffStep ==
    /\ solver = "fdiff"
    /\ pc = "loop"
    /\ LoopContinues(iter)
    /\ iter' = iter + 1
    /\ LET xn == VSub(x_last, PinvMul(jac_inv, f_n))
           dx == VSub(xn, x_last)
       IN  /\ x_new' = xn
           /\ del_x' = dx
           /\ IF XConverged(dx, xn, TOLX_INV)
              THEN /\ Return(XConvReturn(x_last, xn), "x_conv")
                   /\ UNCHANGED x_last
              ELSE /\ x_last' = xn
                   /\ pc' = "eval"
                   /\ UNCHANGED <<result, branch>>
    /\ UNCHANGED <<solver, fxn, x_0, acc, f_n, f_new, jac, jac_inv, grad, p,
                   evals, jcalls, pcalls>>

\* lines 180-193: evaluate F at x_new, the test on f, the next pseudo-inverse
FdiffEval ==
    /\ solver = "fdiff"
    /\ pc = "eval"
    /\ LET fk == Fxn(fxn, x_new)
       IN  /\ f_n' = fk
           /\ evals' = evals + 1
           /\ IF FdiffTestF(fk, 1, 0) < acc
              THEN /\ Return(Ok(x_new), "f_conv")
                   /\ UNCHANGED <<jac_inv, jcalls, pcalls>>
              ELSE /\ jcalls' = jcalls + 1
                   /\ pcalls' = pcalls + 1
                   /\ \E r \in PinvResults(fdiff_jacobian(fxn, fk, x_new)) :
                         IF ~r.ok
                         THEN /\ Return(Err(PinvError), "pinv")
                              /\ UNCHANGED jac_inv
                         ELSE /\ jac_inv' = r.inv
                              /\ pc' = "loop"
                              /\ UNCHANGED <<result, branch>>
    /\ UNCHANGED <<solver, fxn, x_0, acc, iter, x_last, x_new, f_new, jac,
                   del_x, grad, p>>

\* line 195: the loop ran MAX_ITER times
FdiffMaxIter ==
    /\ solver = "fdiff"
    /\ pc = "loop"
    /\ ~LoopContinues(iter)
    /\ Return(Err(MaxIterMsg), "max_iter")
    /\ UNCHANGED <<solver, fxn, x_0, acc, iter, x_last, x_new, f_n, f_new, jac,
                   jac_inv, del_x, grad, p, evals, jcalls, pcalls>>

----------------------------------------------------------------------------
(* Backtracking line search (linsearch::linsrch_w_backtracking) *)

\* the sufficient-decrease constant alpha = 1.0e-4, kept as its reciprocal
ALF_INV == 10000

LinsrchError == "linsrch_w_backtracking"

RECURSIVE Pow2(_)
Pow2(k) == IF k = 0 THEN 1 ELSE 2 * Pow2(k - 1)

\* fmin: (F(x), 0.5 * F.F); the merit value is kept doubled
fmin(fx, x) == LET big_f == Fxn(fx, x) IN <<big_f, Dot(big_f, big_f)>>

\* p rescaled to the length stepmax when it is longer
CapStep(pp, stepmax) ==
    LET pn == Norm(pp)
    IN  IF pn > stepmax THEN [i \in Idx |-> Div(pp[i] * stepmax, pn)] ELSE pp

\* f_new <= f_old + alpha * lambda * slope with lambda = 1 / 2^k and
\* slope < 0, on the doubled merit values: the decrease f_old2 - f2 is at
\* least 2 * |slope| / (ALF_INV * 2^k), rounded up
SufficientDecrease(f2, f_old2, slope, k) ==
    LET den == ALF_INV * Pow2(k)
    IN  f_old2 - f2 >= (2 * (-slope) + den - 1) \div den

LsFail == [ok |-> FALSE, x |-> ZeroVec, fvec |-> ZeroVec, f |-> 0]

\* try lambda = 1, 1/2, 1/4, ... until the decrease is sufficient; give up
\* when the step length has collapsed
RECURSIVE Backtrack(_, _, _, _, _, _)
Backtrack(fx, x_old, f_old2, slope, pp, k) ==
    IF k > LsMaxHalvings THEN LsFail
    ELSE LET x == VAdd(x_old, VDiv(pp, Pow2(k)))
             fm == fmin(fx, x)
         IN  IF SufficientDecrease(fm[2], f_old2, slope, k)
             THEN [ok |-> TRUE, x |-> x, fvec |-> fm[1], f |-> fm[2]]
             ELSE Backtrack(fx, x_old, f_old2, slope, pp, k + 1)

linsrch_w_backtracking(fx, x_old, f_old2, g, pp, stepmax) ==
    LET p1 == CapStep(pp, stepmax)
        slope == Dot(g, p1)
    IN  IF slope >= 0 THEN LsFail
        ELSE Backtrack(fx, x_old, f_old2, slope, p1, 0)

----------------------------------------------------------------------------
(* newton_raphson_linsrch *)

\* line 243: STEP_MAX * x_0.norm().max(dim as f64)
StepMaxOf(x) == STEP_MAX * Max(Norm(x), Dim)

\* line 262: grad = &jac * &f_vec
Gradient(j, f) == MatVec(j, f)

\* line 265: p = -(jac.pseudo_inverse(INV_TOL)? * &f_vec)
NewtonDirection(pinv, f) == VNeg(PinvMul(pinv, f))

\* lines 228-252: evaluate fmin at x_0, first-guess test, initial values
LinsrchCall ==
    /\ solver = "linsrch"
    /\ pc = "call"
    /\ LET fm == fmin(fxn, x_0)
       IN  /\ f_n' = fm[1]
           /\ f_new' = fm[2]
           /\ evals' = evals + 1
           /\ IF IsRootGuess(fm[1], acc)
              THEN /\ Return(Ok(x_0), "root_guess")
                   /\ UNCHANGED <<x_new, grad>>
              ELSE /\ x_new' = x_0
                   /\ grad' = ZeroVec
                   /\ pc' = "loop"
                   /\ UNCHANGED <<result, branch>>
    /\ UNCHANGED <<solver, fxn, x_0, acc, iter, x_last, jac, jac_inv, del_x, p,
                   jcalls, pcalls>>

\* lines 257-300: one iteration
LinsrchIter ==
    /\ solver = "linsrch"
    /\ pc = "loop"
    /\ LoopContinues(iter)
    /\ iter' = iter + 1
    /\ jcalls' = jcalls + 1
    /\ pcalls' = pcalls + 1
    /\ LET j == fdiff_jacobian(fxn, f_n, x_new)
           g == Gradient(j, f_n)
       IN  /\ jac' = j
           /\ grad' = g
           /\ \E r \in PinvResults(j) :
                 IF ~r.ok
                 THEN /\ Return(Err(PinvError), "pinv")
                      /\ UNCHANGED <<p, x_last, x_new, f_n, f_new>>
                 ELSE LET pp == NewtonDirection(r.inv, f_n)
                          x_old == x_new
                          f_old == f_new
                          ls == linsrch_w_backtracking(fxn, x_old, f_old, g, pp,
                                                       StepMaxOf(x_0))
                      IN  /\ p' = pp
                          /\ x_last' = x_old
                          /\ IF ~ls.ok
                             THEN /\ Return(Err(LinsrchError), "linsrch")
                                  /\ UNCHANGED <<x_new, f_n, f_new>>
                             ELSE /\ x_new' = ls.x
                                  /\ f_n' = ls.fvec
                                  /\ f_new' = ls.f
                                  /\ IF MaxAbsFrom(ls.fvec, 1, 0) < acc
                                     THEN Return(Ok(ls.x), "f_conv")
                                     ELSE IF XConverged(VSub(ls.x, x_old), ls.x,
                                                        TOLX_LS_INV)
                                     THEN Return(Ok(ls.x), "x_conv")
                                     ELSE /\ pc' = "loop"
                                          /\ UNCHANGED <<result, branch>>
    /\ UNCHANGED <<solver, fxn, x_0, acc, jac_inv, del_x, evals>>

\* line 302: the loop ran MAX_ITER times
LinsrchMaxIter ==
    /\ solver = "linsrch"
    /\ pc = "loop"
    /\ ~LoopContinues(iter)
    /\ Return(Err(MaxIterMsg), "max_iter")
    /\ UNCHANGED <<solver, fxn, x_0, acc, iter, x_last, x_new, f_n, f_new, jac,
                   jac_inv, del_x, grad, p, evals, jcalls, pcalls>>

----------------------------------------------------------------------------

Next ==
    \/ BroydenCall
    \/ BroydenStep
    \/ BroydenEval
    \/ BroydenMaxIter
    \/ FdiffCall
    \/ FdiffStep
    \/ FdiffEval
    \/ FdiffMaxIter
    \/ LinsrchCall
    \/ LinsrchIter
    \/ LinsrchMaxIter

Spec == Init /\ [][Next]_vars

----------------------------------------------------------------------------
(* Properties *)

\* max_i |v_i| < a
ResidualBelow(v, a) == \A i \in Idx : Abs(v[i]) < a

\* C1: whenever a solver returns Ok(x) through a branch other than the
\* first-guess shortcut, every component of F(x) is below acc in magnitude.
C1_RootProperty ==
    (pc = "done" /\ result.kind = "Ok" /\ branch # "root_guess")
        => ResidualBelow(Fxn(fxn, result.val), acc)

\* C2: when max_i |F(x_0)_i| < 0.01 * acc the call returns Ok(x_0) after one
\* evaluation of F, with no Jacobian estimate, no pseudo-inverse and no
\* iteration of the loop.
C2_RootGuessShortcut ==
    (pc # "call" /\ \A i \in Idx : 100 * Abs(Fxn(fxn, x_0)[i]) < acc)
        => /\ pc = "done"
           /\ result = [kind |-> "Ok", val |-> x_0, msg |-> ""]
           /\ evals = 1
           /\ jcalls = 0
           /\ pcalls = 0
           /\ iter = 0

\* a call that took the shortcut with a residual that is not exactly zero
C2_Witness ==
    /\ pc = "done"
    /\ result.kind = "Ok"
    /\ result.val = x_0
    /\ iter = 0
    /\ Fxn(fxn, x_0) # ZeroVec

\* C3: for a constant function with some |c_i| >= acc, the finite-difference
\* and Broyden drivers return the maximum-iterations error and never Ok (a
\* call the pseudo-inverse itself fails in is left aside).
C3_ConstantYieldsMaxIter ==
    (/\ pc = "done"
     /\ solver \in {"fdiff", "broyden"}
     /\ fxn.kind = "const"
     /\ \E i \in Idx : Abs(fxn.r[i]) >= acc
     /\ result.msg # PinvError)
        => /\ result.kind = "Err"
           /\ result.msg \in {MaxIterMsg, BroydenMaxIterMsg}

MaxIterMsgs == {MaxIterMsg, BroydenMaxIterMsg}

\* what is left to do: two units per remaining iteration, plus the position
Measure ==
    2 * (MAX_ITER - iter)
        + (CASE pc = "call" -> 4 [] pc = "eval" -> 3 [] pc = "loop" -> 2
             [] OTHER -> 0)

C4_State ==
    /\ iter <= MAX_ITER
    /\ pc # "done" => ENABLED Next
    /\ (pc = "done" /\ result.msg \in MaxIterMsgs)
          => (result.kind = "Err" /\ result.val = <<>> /\ iter = MAX_ITER)

C4_Step ==
    /\ 0 <= Measure' /\ Measure' < Measure
    /\ (pc = "loop" /\ iter = MAX_ITER)
          => (pc' = "done" /\ result'.kind = "Err" /\ result'.msg \in MaxIterMsgs
              /\ result'.val = <<>>)

\* C4: no call runs more than MAX_ITER = 200 iterations and every call ends
\* (each step of an unfinished call is possible and strictly decreases a
\* non-negative measure); once 200 iterations have run without a return, the
\* call returns the maximum-iterations error, which holds no point.
C4_IterationBound == [] C4_State /\ [][C4_Step]_vars

\* a call that ran all 200 iterations and returned the error
C4_Witness ==
    /\ pc = "done"
    /\ iter = MAX_ITER
    /\ result.kind = "Err"
    /\ result.msg \in MaxIterMsgs
    /\ solver = "linsrch"

C5_Step ==
    /\ pc = "done" => UNCHANGED vars
    /\ (result.kind = "none" /\ result'.msg \in {PinvError, LinsrchError})
          => /\ pc' = "done"
             /\ result'.kind = "Err"
             /\ result'.val = <<>>
             /\ pcalls' = pcalls + 1
             /\ pc = "loop" => (evals' = evals /\ f_n' = f_n)

\* C5: a failure of pseudo_inverse, or of the line search, ends the call in
\* the step it happens in, with that error: nothing is evaluated after it,
\* no further iteration starts, and no point is returned; a call that has
\* returned takes no further step.
C5_FailuresTerminal ==
    [] (result.kind = "none" <=> pc # "done") /\ [][C5_Step]_vars

\* a pseudo-inverse failure in a later iteration of the loop
C5_Witness ==
    /\ pc = "done"
    /\ result = [kind |-> "Err", val |-> <<>>, msg |-> PinvError]
    /\ iter >= 3

\* C6: in an iteration of the finite-difference driver whose step did not
\* pass the test on x, the driver returns Ok(x_new) if and only if every
\* component of F(x_new) is below acc in magnitude.
C6_FTestIff ==
    [][(solver = "fdiff" /\ pc = "eval")
          => ((result' = [kind |-> "Ok", val |-> x_new, msg |-> ""])
                <=> ResidualBelow(Fxn(fxn, x_new), acc))]_vars

\* max_i (|dx_i| / max(|xn_i|, 1)) < 1.0e-7, by cross-multiplication (a
\* |dx_i| of 215 or more exceeds 1.0e-7 times any coordinate of the model)
RelStepSmall(dx, xn) ==
    \A i \in Idx :
        /\ Abs(dx[i]) < 215
        /\ Abs(dx[i]) * 10000000 < (IF Abs(xn[i]) > 1 THEN Abs(xn[i]) ELSE 1)

C7_Step ==
    /\ (solver \in {"fdiff", "broyden"} /\ pc = "loop" /\ iter < MAX_ITER
            /\ result'.kind # "Err")
          => /\ evals' = evals
             /\ IF RelStepSmall(VSub(x_new', x_last), x_new')
                THEN pc' = "done"
                     /\ result' = [kind |-> "Ok", val |-> x_last, msg |-> ""]
                ELSE pc' = "eval" /\ result'.kind = "none"
    /\ (solver \in {"fdiff", "broyden"} /\ pc = "eval" /\ result'.kind = "Ok")
          => (result'.val = x_new /\ evals' = evals + 1)

\* C7: in the finite-difference and Broyden drivers the test on x comes
\* first in an iteration; when it passes, the call returns Ok(x_last), the
\* iterate before the step, without evaluating F at x_new; x_new is returned
\* only by the test on f.
C7_XConvReturnsPreStep == [][C7_Step]_vars

\* a return through the test on x after a step that is not zero
C7_Witness ==
    /\ pc = "done"
    /\ solver \in {"fdiff", "broyden"}
    /\ branch = "x_conv"
    /\ result.kind = "Ok"
    /\ x_new # result.val

\* C8: in every iteration of the line-search driver, J is the estimate at
\* the current iterate, the gradient handed to the line search is J^T F and
\* the direction is -(J^+) F.
C8_DirectionInputs ==
    (solver = "linsrch" /\ iter >= 1 /\ result.msg # PinvError)
        => LET x == x_last
               f == Fxn(fxn, x)
           IN  /\ jac = fdiff_jacobian(fxn, f, x)
               /\ grad = [i \in Idx |-> jac[1][i] * f[1] + jac[2][i] * f[2]]
               /\ p = VNeg(PinvMul(PseudoInverse(jac), f))

C9_State ==
    solver = "broyden"
        => /\ jcalls <= 1
           /\ pc # "call"
                 => (jcalls = 1
                       <=> ~ \A i \in Idx : 100 * Abs(Fxn(fxn, x_0)[i]) < acc)
           /\ pc = "loop" => f_n = Fxn(fxn, x_last)
           /\ (pc = "loop" /\ iter = 0)
                 => /\ x_last = x_0
                    /\ jac = fdiff_jacobian_2(fxn, Fxn(fxn, x_0), x_0)

C9_Step ==
    /\ (solver = "broyden" /\ pc = "loop" /\ iter < MAX_ITER
            /\ result'.kind # "Err")
          => /\ x_new' = VSub(x_last, PinvMul(PseudoInverse(jac), f_n))
             /\ del_x' = VSub(x_new', x_last)
             /\ jcalls' = jcalls
             /\ jac' = jac
    /\ (solver = "broyden" /\ pc = "eval" /\ pc' = "loop")
          => LET dx == del_x
                 dF == VSub(Fxn(fxn, x_new), Fxn(fxn, VSub(x_new, dx)))
                 n2 == dx[1] * dx[1] + dx[2] * dx[2]
             IN  /\ \A i \in Idx : \A j \in Idx :
                       jac'[i][j] = jac[i][j]
                          + Div(dF[i] - (jac[i][1] * dx[1] + jac[i][2] * dx[2]),
                                n2) * dx[j]
                 /\ x_last' = x_new
                 /\ jcalls' = jcalls

\* C9: a Broyden call invokes the finite-difference estimator at most once:
\* exactly once, at x_0 with F(x_0), when x_0 is not taken as a root.  Every
\* iteration steps with the pseudo-inverse of the current J, and an iteration
\* that does not return replaces J by J + ((dF - J dx) / |dx|^2) dx^T with
\* dx = x_new - x_last and dF = F(x_new) - F(x_last); at every loop head the
\* stored residual is F at the stored iterate.
C9_BroydenJacobian == [] C9_State /\ [][C9_Step]_vars

\* a loop head reached with a Jacobian the rank-one update has changed
C9_Witness ==
    /\ solver = "broyden"
    /\ pc = "loop"
    /\ iter >= 2
    /\ jcalls = 1
    /\ jac # fdiff_jacobian_2(fxn, Fxn(fxn, x_0), x_0)

C10_State ==
    (solver = "broyden" /\ pc = "eval")
        => /\ del_x # ZeroVec
           /\ ~RelStepSmall(del_x, x_new)
           /\ del_x[1] * del_x[1] + del_x[2] * del_x[2] > 0

C10_Step ==
    /\ (solver = "broyden" /\ pc = "loop" /\ iter < MAX_ITER
            /\ result'.kind # "Err" /\ x_new' = x_last)
          => /\ pc' = "done"
             /\ result' = [kind |-> "Ok", val |-> x_last, msg |-> ""]
             /\ jac' = jac
    /\ (solver = "broyden" /\ pc # "call" /\ jac' # jac)
          => (pc = "eval" /\ del_x # ZeroVec)

\* C10: the Broyden update, with its division by |dx|^2, runs only in an
\* iteration whose step failed the test on x, so never with dx = 0: a zero
\* step makes the call return Ok(x_last) before the division.
C10_ZeroStepGuard == [] C10_State /\ [][C10_Step]_vars

\* a Broyden call that returned on a step of exactly zero
C10_Witness ==
    /\ solver = "broyden"
    /\ pc = "done"
    /\ branch = "x_conv"
    /\ del_x = ZeroVec
    /\ result.kind = "Ok"

============================================================================
